---- MODULE Spec2Model ----
(***************************************************************************)
(* Conv + batch-norm QAT fusion passes of                                  *)
(* torch/ao/quantization/_pt2e/qat_utils.py: _fuse_conv_bn_qat,            *)
(* _fold_conv_bn_qat, the two match filters and the node-triple helper.    *)
(*                                                                         *)
(* A graph is a sequence of node objects; a node's position is its         *)
(* identity.  Erased nodes stay in the sequence (objects outlive their     *)
(* removal from the graph) with erased = TRUE.  Node metadata dictionaries *)
(* live in a separate heap (metas) so that `a.meta = b.meta` aliases.      *)
(***************************************************************************)
EXTENDS Integers, Sequences, FiniteSets, TLC

\* ------------------------------------------------------------------------
\* Operands: a node reference, None, or a literal value
\* ------------------------------------------------------------------------
N(i) == [k |-> "n", v |-> i]
None == [k |-> "none", v |-> 0]
L(x) == [k |-> "lit", v |-> x]
IsNode(a) == a.k = "n"

\* Encoded literal values
EpsLit == 5
MomentumLit == 10
Int8Lit == 8
DefaultStride == 1

\* default literal operands of a traced aten.convolution:
\* stride, padding, dilation, transposed, output_padding, groups
ConvLits(stride) == << L(stride), L(0), L(1), L(0), L(0), L(1) >>
BnLits == << L(1), L(MomentumLit), L(EpsLit) >>

PNode(op, target, args) == [op |-> op, target |-> target, args |-> args]
PH(name) == PNode("placeholder", name, << >>)
CF(target, args) == PNode("call_function", target, args)

\* The seven tensor inputs shared by the float patterns
FloatPlaceholders ==
  << PH("x"), PH("conv_weight"), PH("conv_bias"), PH("bn_weight"),
     PH("bn_bias"), PH("bn_running_mean"), PH("bn_running_var") >>

\* _conv2d_bn_pattern traced to aten ops: conv -> bn -> getitem
Conv2dBnPattern ==
  FloatPlaceholders \o
  << CF("conv", << N(1), N(2), N(3) >> \o ConvLits(DefaultStride)),
     CF("bn", << N(8), N(4), N(5), N(6), N(7) >> \o BnLits),
     CF("getitem", << N(9), L(0) >>) >>

\* _qat_conv2d_bn_pattern traced to aten ops
QatConv2dBnPattern ==
  FloatPlaceholders \o
  << CF("add", << N(7), L(EpsLit) >>),
     CF("sqrt", << N(8) >>),
     CF("div", << N(4), N(9) >>),
     CF("view", << N(10), L(0) >>),
     CF("mul", << N(2), N(11) >>),
     CF("zeros_like", << N(3) >>),
     CF("conv", << N(1), N(12), N(13) >> \o ConvLits(DefaultStride)),
     CF("view", << N(10), L(1) >>),
     CF("div", << N(14), N(15) >>),
     CF("view", << N(3), L(1) >>),
     CF("add", << N(16), N(17) >>),
     CF("bn", << N(18), N(4), N(5), N(6), N(7) >> \o BnLits),
     CF("getitem", << N(19), L(0) >>) >>

\* _qat_conv2d_bn_pattern_no_conv_bias traced to aten ops
QatConv2dBnPatternNoConvBias ==
  FloatPlaceholders \o
  << CF("add", << N(7), L(EpsLit) >>),
     CF("sqrt", << N(8) >>),
     CF("div", << N(4), N(9) >>),
     CF("view", << N(10), L(0) >>),
     CF("mul", << N(2), N(11) >>),
     CF("conv", << N(1), N(12), None >> \o ConvLits(DefaultStride)),
     CF("view", << N(10), L(1) >>),
     CF("div", << N(13), N(14) >>),
     CF("bn", << N(15), N(4), N(5), N(6), N(7) >> \o BnLits),
     CF("getitem", << N(16), L(0) >>) >>

\* The thirteen inputs of the quantized patterns
QuantPlaceholders ==
  FloatPlaceholders \o
  << PH("input_scale"), PH("input_zero_point"), PH("weight_scale"),
     PH("weight_zero_point"), PH("output_scale"), PH("output_zero_point") >>

weight_quant_min == -127
weight_quant_max == 127
input_quant_min == -128
input_quant_max == 127
output_quant_min == -128
output_quant_max == 127
per_channel_axis == 0

\* quantize / dequantize of the weight, per channel or per tensor
WeightQ(is_per_channel, w) ==
  IF is_per_channel
  THEN CF("quantize_per_channel.default",
          << w, N(10), N(11), L(per_channel_axis), L(weight_quant_min),
             L(weight_quant_max), L(Int8Lit) >>)
  ELSE CF("quantize_per_tensor.tensor",
          << w, N(10), N(11), L(weight_quant_min), L(weight_quant_max),
             L(Int8Lit) >>)

WeightDQ(is_per_channel, q) ==
  IF is_per_channel
  THEN CF("dequantize_per_channel.default",
          << q, N(10), N(11), L(per_channel_axis), L(weight_quant_min),
             L(weight_quant_max), L(Int8Lit) >>)
  ELSE CF("dequantize_per_tensor.tensor",
          << q, N(10), N(11), L(weight_quant_min), L(weight_quant_max),
             L(Int8Lit) >>)

InputDQ == CF("dequantize_per_tensor.tensor",
              << N(1), N(8), N(9), L(input_quant_min), L(input_quant_max),
                 L(Int8Lit) >>)

OutputQ(x) == CF("quantize_per_tensor.tensor",
                 << x, N(12), N(13), L(output_quant_min), L(output_quant_max),
                    L(Int8Lit) >>)

\* _get_quantized_qat_conv2d_bn_pattern(is_per_channel) traced to aten ops
QuantizedQatConv2dBnPattern(is_per_channel) ==
  QuantPlaceholders \o
  << CF("add", << N(7), L(EpsLit) >>),
     CF("sqrt", << N(14) >>),
     CF("div", << N(4), N(15) >>),
     CF("view", << N(16), L(0) >>),
     CF("mul", << N(2), N(17) >>),
     InputDQ,
     CF("zeros_like", << N(3) >>),
     WeightQ(is_per_channel, N(18)),
     WeightDQ(is_per_channel, N(21)),
     CF("conv", << N(19), N(22), N(20) >> \o ConvLits(DefaultStride)),
     CF("view", << N(16), L(1) >>),
     CF("div", << N(23), N(24) >>),
     CF("view", << N(3), L(1) >>),
     CF("add", << N(25), N(26) >>),
     CF("bn", << N(27), N(4), N(5), N(6), N(7) >> \o BnLits),
     CF("getitem", << N(28), L(0) >>),
     OutputQ(N(29)) >>

\* _get_folded_quantized_qat_conv2d_bn_pattern(is_per_channel) traced to aten ops
FoldedQuantizedQatConv2dBnPattern(is_per_channel) ==
  QuantPlaceholders \o
  << InputDQ,
     WeightQ(is_per_channel, N(2)),
     WeightDQ(is_per_channel, N(15)),
     CF("conv", << N(14), N(16), N(3) >> \o ConvLits(DefaultStride)),
     CF("bn", << N(17), N(4), N(5), N(6), N(7) >> \o BnLits),
     CF("getitem", << N(18), L(0) >>),
     OutputQ(N(19)) >>

\* the quantized form of the bias-free fused subgraph that
\* _qat_conv2d_bn_pattern_no_conv_bias leaves in the graph
QuantizedQatNoConvBiasGraph(is_per_channel) ==
  QuantPlaceholders \o
  << CF("add", << N(7), L(EpsLit) >>),
     CF("sqrt", << N(14) >>),
     CF("div", << N(4), N(15) >>),
     CF("view", << N(16), L(0) >>),
     CF("mul", << N(2), N(17) >>),
     InputDQ,
     WeightQ(is_per_channel, N(18)),
     WeightDQ(is_per_channel, N(20)),
     CF("conv", << N(19), N(21), None >> \o ConvLits(DefaultStride)),
     CF("view", << N(16), L(1) >>),
     CF("div", << N(22), N(23) >>),
     CF("bn", << N(24), N(4), N(5), N(6), N(7) >> \o BnLits),
     CF("getitem", << N(25), L(0) >>),
     OutputQ(N(26)) >>

\* the overload-free target the convert step emits for a q/dq op
RemoveOverload(target) ==
  IF target = "quantize_per_tensor.tensor" THEN "quantize_per_tensor"
  ELSE IF target = "dequantize_per_tensor.tensor" THEN "dequantize_per_tensor"
  ELSE IF target = "quantize_per_channel.default" THEN "quantize_per_channel"
  ELSE IF target = "dequantize_per_channel.default" THEN "dequantize_per_channel"
  ELSE target

\* the workaround loop over match_pattern.graph.nodes
NormalizeOverloads(pat) ==
  [j \in 1..Len(pat) |->
     IF pat[j].op # "call_function" THEN pat[j]
     ELSE [pat[j] EXCEPT !.target = RemoveOverload(@)]]

\* ------------------------------------------------------------------------
\* Graph model (torch.fx Graph / Node as used by the passes)
\* ------------------------------------------------------------------------
GNode(op, target, args, meta) ==
  [op |-> op, target |-> target, args |-> args, meta |-> meta, erased |-> FALSE]

NoAnnotation == [has |-> FALSE, qmap |-> << >>]
Annotation(qmap) == [has |-> TRUE, qmap |-> qmap]
QSpec(key, spec) == [key |-> key, spec |-> spec]

Live(g) == { i \in 1..Len(g) : ~g[i].erased }

\* Node.users
Users(g, i) ==
  { j \in Live(g) : \E a \in 1..Len(g[j].args) : g[j].args[a] = N(i) }

HasNodeArg(n) == \E a \in 1..Len(n.args) : IsNode(n.args[a])

\* variant of IsImpure that protects the graph inputs only
IsImpureOutputForgotten(n) == n.op = "placeholder"

\* Graph.eliminate_dead_code: drop every node without users that is not a
\* placeholder or the output, until none is left
IsImpure(n) == n.op \in {"placeholder", "output"}

DeadNodes(g) == { i \in Live(g) : ~IsImpure(g[i]) /\ Users(g, i) = {} }

\* Graph.erase_node: the node leaves the graph and its node operands are
\* cleared; literal operands stay on the node object
EraseNode(n) ==
  [n EXCEPT !.erased = TRUE,
            !.args = [a \in 1..Len(@) |-> IF IsNode(@[a]) THEN None ELSE @[a]]]

\* erase_node on every node of S
EraseAll(g, S) ==
  << >> \o [i \in 1..Len(g) |-> IF i \in S THEN EraseNode(g[i]) ELSE g[i]]

RECURSIVE eliminate_dead_code(_)
eliminate_dead_code(g) ==
  IF DeadNodes(g) = {} THEN g
  ELSE eliminate_dead_code(EraseAll(g, DeadNodes(g)))

\* Node.replace_all_uses_with
ReplaceAllUsesWith(g, old, new) ==
  [i \in 1..Len(g) |->
     IF g[i].erased THEN g[i]
     ELSE [g[i] EXCEPT !.args =
             [a \in 1..Len(@) |-> IF @[a] = N(old) THEN N(new) ELSE @[a]]]]

\* ------------------------------------------------------------------------
\* Subgraph matcher
\* ------------------------------------------------------------------------
MapEntry(p, gnode) == [p |-> p, g |-> gnode]
IsMapped(map, p) == \E e \in 1..Len(map) : map[e].p = p
MappedTo(map, p) == map[CHOOSE e \in 1..Len(map) : map[e].p = p].g

IgnoreLiterals == TRUE

\* two nodes are of the same kind
NodesAreEqual(pn, gn) ==
  \/ pn.op = "placeholder"
  \/ pn.op = gn.op /\ pn.target = gn.target

\* the pattern's returning node is its last node
Anchor(pat) == Len(pat)

\* target nodes bound to non-placeholder pattern nodes
Interior(pat, map) ==
  { map[e].g.v : e \in { x \in 1..Len(map) :
        pat[map[x].p].op # "placeholder" /\ IsNode(map[x].g) } }

ReturningNode(pat, map) == MappedTo(map, Anchor(pat)).v

\* interior nodes other than the returning node have no user outside the match
IsContained(pat, g, map) ==
  \A i \in Interior(pat, map) \ {ReturningNode(pat, map)} :
     Users(g, i) \subseteq Interior(pat, map)

\* A pattern node is reached from the returning node by a path of operand
\* positions; the target operand it corresponds to is the one the same path
\* reaches from the candidate node.
Missing == [k |-> "missing", v |-> 0]

Parents(pat, p) ==
  UNION { { << q, a >> : a \in { x \in 1..Len(pat[q].args) : pat[q].args[x] = N(p) } } :
          q \in 1..Len(pat) }

RECURSIVE PathsTo(_, _)
PathsTo(pat, p) ==
  IF p = Anchor(pat) THEN { << >> }
  ELSE UNION { { Append(s, qa[2]) : s \in PathsTo(pat, qa[1]) } :
               qa \in Parents(pat, p) }

RECURSIVE OperandAt(_, _, _)
OperandAt(g, o, s) ==
  IF s = << >> THEN o
  ELSE IF IsNode(o) /\ s[1] <= Len(g[o.v].args)
       THEN OperandAt(g, g[o.v].args[s[1]], Tail(s))
  ELSE Missing

\* s is visited before t when operands are followed depth first, in order
VisitedBefore(s, t) ==
  \E k \in 1..Len(t) :
    /\ k <= Len(s) + 1
    /\ \A j \in 1..(k - 1) : s[j] = t[j]
    /\ IF k = Len(s) + 1 THEN TRUE ELSE s[k] < t[k]

\* per pattern: the paths to each node, the first of them, and the nodes in
\* the order they are first visited
PatternIndex(pat) ==
  LET paths == << >> \o [p \in 1..Len(pat) |-> PathsTo(pat, p)]
      reached == { p \in 1..Len(pat) : paths[p] # {} }
      first == << >> \o [p \in 1..Len(pat) |->
                 IF p \in reached
                 THEN CHOOSE s \in paths[p] :
                        \A t \in paths[p] \ {s} : VisitedBefore(s, t)
                 ELSE << >>]
      rank == << >> \o [p \in 1..Len(pat) |->
                 Cardinality({ q \in reached : VisitedBefore(first[q], first[p]) })]
  IN [paths |-> paths, reached |-> reached, first |-> first,
      order |-> << >> \o [n \in 1..Cardinality(reached) |->
                  CHOOSE p \in reached : rank[p] = n - 1]]

\* the operand each pattern node is bound to when the pattern is laid on node i
BoundTo(pat, ix, g, i) ==
  << >> \o [p \in 1..Len(pat) |->
     IF p \in ix.reached THEN OperandAt(g, N(i), ix.first[p]) ELSE Missing]

\* literal operands of the pattern constrain the target unless ignored
LiteralsMatch(pat, ix, g, i) ==
  IgnoreLiterals \/
  \A p \in ix.reached : \A a \in 1..Len(pat[p].args) :
    IsNode(pat[p].args[a]) \/
      \A s \in ix.paths[p] : OperandAt(g, N(i), Append(s, a)) = pat[p].args[a]

\* operator kinds agree along every path, every path to a pattern node ends
\* at the same operand, and no target node stands for two pattern nodes
Corresponds(pat, ix, g, i, bound) ==
  /\ \A p \in ix.reached : \A s \in ix.paths[p] :
       LET o == OperandAt(g, N(i), s) IN
       /\ o # Missing
       /\ o = bound[p]
       /\ \/ pat[p].op = "placeholder"
          \/ /\ IsNode(o)
             /\ NodesAreEqual(pat[p], g[o.v])
             /\ Len(pat[p].args) = Len(g[o.v].args)
  /\ \A p, q \in ix.reached :
       (p # q /\ IsNode(bound[p])) => bound[p] # bound[q]
  /\ LiteralsMatch(pat, ix, g, i)

\* the match anchored at target node i; the node correspondence is kept in
\* the order the pattern nodes are first visited
MatchAt(pat, ix, g, i) ==
  LET bound == BoundTo(pat, ix, g, i) IN
  IF Corresponds(pat, ix, g, i, bound)
  THEN [ok |-> TRUE,
        map |-> << >> \o [n \in 1..Len(ix.order) |->
                  MapEntry(ix.order[n], bound[ix.order[n]])]]
  ELSE [ok |-> FALSE, map |-> << >>]

\* the indexes of the patterns the passes match
Conv2dBnIndex == PatternIndex(Conv2dBnPattern)
MatchPatternPerChannel == NormalizeOverloads(QuantizedQatConv2dBnPattern(TRUE))
MatchPatternPerTensor == NormalizeOverloads(QuantizedQatConv2dBnPattern(FALSE))
QuantizedPerChannelIndex == PatternIndex(MatchPatternPerChannel)
QuantizedPerTensorIndex == PatternIndex(MatchPatternPerTensor)

IndexOf(pat) ==
  CASE pat = Conv2dBnPattern -> Conv2dBnIndex
    [] pat = MatchPatternPerChannel -> QuantizedPerChannelIndex
    [] pat = MatchPatternPerTensor -> QuantizedPerTensorIndex
    [] OTHER -> PatternIndex(pat)

\* the attempt at every target node
Attempts(pat, g) ==
  LET ix == IndexOf(pat) IN
  << >> \o [i \in 1..Len(g) |->
     IF i \in Live(g) /\ NodesAreEqual(pat[Anchor(pat)], g[i])
     THEN MatchAt(pat, ix, g, i)
     ELSE [ok |-> FALSE, map |-> << >>]]

Candidates(pat, g, attempts) ==
  { i \in 1..Len(g) :
      attempts[i].ok /\ IsContained(pat, g, attempts[i].map) }

\* matches in graph order; a match that reuses a consumed node is dropped
RECURSIVE KeepFrom(_, _, _, _, _)
KeepFrom(pat, attempts, cands, taken, acc) ==
  IF cands = {} THEN acc
  ELSE LET i == CHOOSE x \in cands : \A y \in cands : x <= y
           map == attempts[i].map
       IN IF Interior(pat, map) \cap taken = {}
          THEN KeepFrom(pat, attempts, cands \ {i},
                        taken \cup Interior(pat, map), Append(acc, map))
          ELSE KeepFrom(pat, attempts, cands \ {i}, taken, acc)

Matches(pat, g) ==
  LET attempts == Attempts(pat, g) IN
  KeepFrom(pat, attempts, Candidates(pat, g, attempts), {}, << >>)

\* ------------------------------------------------------------------------
\* Match filters
\* ------------------------------------------------------------------------
\* _has_conv_bias_filter: walks match.nodes_map in insertion order; reading
\* .target of a None entry raises AttributeError
RECURSIVE HasConvBiasFrom(_, _, _)
HasConvBiasFrom(g, map, e) ==
  IF e > Len(map) THEN "ValueError"
  ELSE IF ~IsNode(map[e].g) THEN "AttributeError"
  ELSE IF g[map[e].g.v].target = "conv"
       THEN IF g[map[e].g.v].args[3] # None THEN "True" ELSE "False"
  ELSE HasConvBiasFrom(g, map, e + 1)

\* variant of the filter that answers False instead of raising
HasConvBiasOrFalse(g, map) ==
  IF HasConvBiasFrom(g, map, 1) = "True" THEN "True" ELSE "False"

_has_conv_bias_filter(g, map) == HasConvBiasFrom(g, map, 1)

\* variant of the filter without the negation
NoConvBiasUnnegated(g, map) == _has_conv_bias_filter(g, map)

\* return not _has_conv_bias_filter(match, original_graph, pattern_graph)
_no_conv_bias_filter(g, map) ==
  LET r == _has_conv_bias_filter(g, map) IN
  IF r = "True" THEN "False" ELSE IF r = "False" THEN "True" ELSE r

ApplyFilter(name, g, map) ==
  IF name = "has_bias" THEN _has_conv_bias_filter(g, map)
  ELSE IF name = "no_bias" THEN _no_conv_bias_filter(g, map)
  ELSE "True"

\* ------------------------------------------------------------------------
\* Subgraph rewriter (replace_pattern_with_filters)
\* ------------------------------------------------------------------------
NumPlaceholders(pat) == Cardinality({ j \in 1..Len(pat) : pat[j].op = "placeholder" })

\* a boundary input that an earlier replacement of the same call has erased
\* is followed to the node that replaced it
Translate(changed, a) ==
  IF IsNode(a) /\ \E c \in changed : c[1] = a.v
  THEN N((CHOOSE c \in changed : c[1] = a.v)[2])
  ELSE a

\* copy of the replacement graph into the target graph (Graph.graph_copy)
Instantiate(g, rep, map, changed) ==
  LET np == NumPlaceholders(rep)
      base == Len(g) - np
      arg(a) == IF IsNode(a)
                THEN IF a.v <= np THEN Translate(changed, MappedTo(map, a.v))
                     ELSE N(base + a.v)
                ELSE a
  IN [j \in 1..(Len(rep) - np) |->
        GNode(rep[np + j].op, rep[np + j].target,
              [a \in 1..Len(rep[np + j].args) |-> arg(rep[np + j].args[a])],
              Len(g) + j)]

ReplacedPatterns(map, replacements) ==
  [nodes_map |-> map, replacements |-> replacements]

\* one accepted match: splice the copy in, redirect the users of the matched
\* output, erase the matched interior
ReplaceOne(g, m, pat, rep, map, changed) ==
  LET new == Instantiate(g, rep, map, changed)
      old == ReturningNode(pat, map)
      ret == Len(g) + Len(new)
      g1 == ReplaceAllUsesWith(g \o new, old, ret)
  IN [g |-> EraseAll(g1, Interior(pat, map)),
      m |-> m \o [j \in 1..Len(new) |-> NoAnnotation],
      r |-> ReplacedPatterns(map, [j \in 1..Len(new) |-> Len(g) + j]),
      changed |-> changed \cup {<< old, ret >>}]

RECURSIVE ReplaceFrom(_, _, _, _, _, _, _, _)
ReplaceFrom(g, m, pat, rep, ms, i, changed, acc) ==
  IF i > Len(ms) THEN [g |-> g, m |-> m, reps |-> acc, err |-> "none"]
  ELSE LET one == ReplaceOne(g, m, pat, rep, ms[i], changed) IN
       ReplaceFrom(one.g, one.m, pat, rep, ms, i + 1, one.changed,
                   Append(acc, one.r))

FilterRaises(name, g, ms) ==
  \E i \in 1..Len(ms) : ApplyFilter(name, g, ms[i]) \notin {"True", "False"}

Accepted(name, g, ms) ==
  SelectSeq(ms, LAMBDA map : ApplyFilter(name, g, map) = "True")

\* filters are evaluated on every match before the first replacement
replace_pattern_with_filters(g, m, pat, rep, filter) ==
  LET ms == Matches(pat, g) IN
  IF FilterRaises(filter, g, ms)
  THEN [g |-> g, m |-> m, reps |-> << >>, err |-> "FilterError"]
  ELSE ReplaceFrom(g, m, pat, rep, Accepted(filter, g, ms), 1, {}, << >>)

\* ------------------------------------------------------------------------
\* _get_conv_bn_getitem_nodes
\* ------------------------------------------------------------------------
Triple(ok, c, b, gi) == [ok |-> ok, conv |-> c, bn |-> b, getitem |-> gi]
AssertFailed == Triple(FALSE, 0, 0, 0)

\* variant of the final assertions that leaves getitem_node unchecked
FinalAssertsWithoutGetitem(t) == t.conv # 0 /\ t.bn # 0

\* 0 stands for a slot that is still None
\* assert conv_node is not None; ... bn_node ...; ... getitem_node ...
FinalAsserts(t) == t.conv # 0 /\ t.bn # 0 /\ t.getitem # 0

RECURSIVE GetNodesFrom(_, _, _, _)
GetNodesFrom(g, nodes, i, t) ==
  IF i > Len(nodes)
  THEN IF FinalAsserts(t) THEN t ELSE AssertFailed
  ELSE LET n == g[nodes[i]] IN
    IF n.op # "call_function" THEN GetNodesFrom(g, nodes, i + 1, t)
    ELSE IF n.target = "conv" THEN
      IF t.conv # 0 THEN AssertFailed
      ELSE GetNodesFrom(g, nodes, i + 1, [t EXCEPT !.conv = nodes[i]])
    ELSE IF n.target = "bn" THEN
      IF t.bn # 0 THEN AssertFailed
      ELSE GetNodesFrom(g, nodes, i + 1, [t EXCEPT !.bn = nodes[i]])
    ELSE IF n.target = "getitem" THEN
      IF t.getitem # 0 THEN AssertFailed
      ELSE GetNodesFrom(g, nodes, i + 1, [t EXCEPT !.getitem = nodes[i]])
    ELSE GetNodesFrom(g, nodes, i + 1, t)

_get_conv_bn_getitem_nodes(g, nodes) ==
  GetNodesFrom(g, nodes, 1, Triple(TRUE, 0, 0, 0))

\* ------------------------------------------------------------------------
\* _fuse_conv_bn_qat, step (3): metadata and literal-argument copying
\* ------------------------------------------------------------------------
\* Python dict assignment d[key] = spec, keeping insertion order
DictSet(d, key, spec) ==
  IF \E e \in 1..Len(d) : d[e].key = key
  THEN [e \in 1..Len(d) |-> IF d[e].key = key THEN QSpec(key, spec) ELSE d[e]]
  ELSE Append(d, QSpec(key, spec))

\* variant of the copy that splits one position later: args[:4] + args[4:]
CopiedConvArgsFromFour(replacement_args, original_args) ==
  SubSeq(replacement_args, 1, 4) \o SubSeq(original_args, 5, Len(original_args))

\* replacement_conv_node.args[:3] + original_node.args[3:]
CopiedConvArgs(replacement_args, original_args) ==
  SubSeq(replacement_args, 1, 3) \o SubSeq(original_args, 4, Len(original_args))

\* the bias entry is written when both lengths exceed two
WritesBiasSpec(conv_args, all_configs) ==
  Len(conv_args) > 2 /\ Len(all_configs) > 2

\* the rebuilt input_qspec_map of the replacement convolution
RebuiltQSpecMap(conv_args, all_configs) ==
  LET d1 == DictSet(<< >>, conv_args[1], all_configs[1].spec)
      d2 == DictSet(d1, conv_args[2], all_configs[2].spec)
  IN IF WritesBiasSpec(conv_args, all_configs)
     THEN DictSet(d2, conv_args[3], all_configs[3].spec)
     ELSE d2

PState(g, m, err) == [g |-> g, m |-> m, err |-> err]

\* a matched node with a node operand left is a boundary input and is skipped
SkipsOriginal(n) == HasNodeArg(n)

\* variant of the conv branch that tests the annotation's presence before
\* reading it, and goes on to the next node when it is missing
ConvBranchTestingFirst(g, m, t, o) ==
  LET args == CopiedConvArgs(g[t.conv].args, g[o].args)
      g1 == [g EXCEPT ![t.conv] = [@ EXCEPT !.meta = g[o].meta, !.args = args]]
      mo == g[o].meta
  IN IF ~m[mo].has THEN PState(g1, m, "none")
     ELSE IF Len(m[mo].qmap) < 2 THEN PState(g1, m, "IndexError")
     ELSE PState(g1,
                 [m EXCEPT ![mo] = Annotation(RebuiltQSpecMap(args, m[mo].qmap))],
                 "none")

\* the conv branch: metadata and literal operands are copied, then the
\* annotation is read before its presence is tested
ConvBranch(g, m, t, o) ==
  LET args == CopiedConvArgs(g[t.conv].args, g[o].args)
      g1 == [g EXCEPT ![t.conv] = [@ EXCEPT !.meta = g[o].meta, !.args = args]]
      mo == g[o].meta
  IN IF ~m[mo].has THEN PState(g1, m, "KeyError")
     ELSE IF Len(m[mo].qmap) < 2 THEN PState(g1, m, "IndexError")
     ELSE PState(g1,
                 [m EXCEPT ![mo] = Annotation(RebuiltQSpecMap(args, m[mo].qmap))],
                 "none")

\* body of the loop over r.nodes_map.items() for one entry
CopyEntry(g, m, t, entry) ==
  IF entry = None THEN PState(g, m, "none")
  ELSE IF ~IsNode(entry) THEN PState(g, m, "AttributeError")
  ELSE LET o == entry.v IN
    IF SkipsOriginal(g[o]) THEN PState(g, m, "none")
    ELSE IF g[o].target = "conv" THEN ConvBranch(g, m, t, o)
    ELSE IF g[o].target = "bn"
         THEN PState([g EXCEPT ![t.bn].meta = g[o].meta], m, "none")
    ELSE IF g[o].target = "getitem"
         THEN PState([g EXCEPT ![t.getitem].meta = g[o].meta], m, "none")
    ELSE PState(g, m, "none")

RECURSIVE CopyFrom(_, _, _, _, _)
CopyFrom(g, m, t, map, e) ==
  IF e > Len(map) THEN PState(g, m, "none")
  ELSE LET s == CopyEntry(g, m, t, map[e].g) IN
       IF s.err # "none" THEN s ELSE CopyFrom(s.g, s.m, t, map, e + 1)

\* one iteration of `for r in replacements_with_conv_bias + replacements_no_conv_bias`
PostProcess(g, m, r) ==
  LET t == _get_conv_bn_getitem_nodes(g, r.replacements) IN
  IF ~t.ok THEN PState(g, m, "AssertionError")
  ELSE CopyFrom(g, m, t, r.nodes_map, 1)

\* ------------------------------------------------------------------------
\* Input graphs
\* ------------------------------------------------------------------------
MaxUnits == 2
Strides == {1, 2}

\* a unit is a convolution fed by the previous unit's value, followed either
\* by a training batch-norm and its getitem, or by a relu
FloatUnits ==
  [kind : {"convbn"}, bias : BOOLEAN, annot : {0, 2, 3}]
    \cup [kind : {"plain"}, bias : {TRUE}, annot : {0, 2}]

UnitSeqs(U) == UNION { [1..n -> U] : n \in 0..MaxUnits }

BState(g, m, cur) == [g |-> g, m |-> m, cur |-> cur]

GetAttr(name, id) == GNode("get_attr", name, << >>, id)

\* annotation of a convolution: activation, weight and (with three specs) bias
ConvAnnotation(u, x, w, b) ==
  IF u.annot = 0 THEN NoAnnotation
  ELSE Annotation(<< QSpec(x, "act"), QSpec(w, "weight") >>
                  \o (IF u.annot = 3 THEN << QSpec(b, "bias") >> ELSE << >>))

AddConvBn(S, u, stride, bnAnnot) ==
  LET b == Len(S.g)
      k == IF u.bias THEN 1 ELSE 0
      bias == IF u.bias THEN N(b + 2) ELSE None
      conv == b + 6 + k
  IN BState(
       S.g \o << GetAttr("conv_weight", b + 1) >>
           \o (IF u.bias THEN << GetAttr("conv_bias", b + 2) >> ELSE << >>)
           \o << GetAttr("bn_weight", b + 2 + k),
                 GetAttr("bn_bias", b + 3 + k),
                 GetAttr("bn_running_mean", b + 4 + k),
                 GetAttr("bn_running_var", b + 5 + k),
                 GNode("call_function", "conv",
                       << S.cur, N(b + 1), bias >> \o ConvLits(stride), conv),
                 GNode("call_function", "bn",
                       << N(conv), N(b + 2 + k), N(b + 3 + k), N(b + 4 + k),
                          N(b + 5 + k) >> \o BnLits, conv + 1),
                 GNode("call_function", "getitem", << N(conv + 1), L(0) >>,
                       conv + 2) >>,
       S.m \o [j \in 1..(5 + k) |-> NoAnnotation]
           \o << ConvAnnotation(u, S.cur, N(b + 1), bias),
                 IF bnAnnot THEN Annotation(<< QSpec(N(conv), "act") >>)
                 ELSE NoAnnotation,
                 NoAnnotation >>,
       N(conv + 2))

AddPlain(S, u, stride) ==
  LET b == Len(S.g) IN
  BState(
    S.g \o << GetAttr("conv_weight", b + 1), GetAttr("conv_bias", b + 2),
              GNode("call_function", "conv",
                    << S.cur, N(b + 1), N(b + 2) >> \o ConvLits(stride), b + 3),
              GNode("call_function", "relu", << N(b + 3) >>, b + 4) >>,
    S.m \o << NoAnnotation, NoAnnotation,
              ConvAnnotation(u, S.cur, N(b + 1), N(b + 2)), NoAnnotation >>,
    N(b + 4))

\* an optional consumer-less node, then the output node
Finish(S, dead) ==
  LET b == Len(S.g) IN
  IF dead
  THEN BState(S.g \o << GNode("call_function", "relu", << S.cur >>, b + 1),
                        GNode("output", "output", << S.cur >>, b + 2) >>,
              S.m \o << NoAnnotation, NoAnnotation >>, S.cur)
  ELSE BState(S.g \o << GNode("output", "output", << S.cur >>, b + 1) >>,
              S.m \o << NoAnnotation >>, S.cur)

Start == BState(<< GNode("placeholder", "input", << >>, 1) >>,
                << NoAnnotation >>, N(1))

RECURSIVE BuildFloat(_, _, _, _, _)
BuildFloat(S, us, i, stride, bnAnnot) ==
  IF i > Len(us) THEN S
  ELSE BuildFloat(IF us[i].kind = "convbn"
                  THEN AddConvBn(S, us[i], stride, bnAnnot)
                  ELSE AddPlain(S, us[i], stride),
                  us, i + 1, stride, bnAnnot)

FloatGraph(us, stride, bnAnnot, dead) ==
  Finish(BuildFloat(Start, us, 1, stride, bnAnnot), dead)

\* a quantized fused unit: the graph the fusion and the convert step leave
\* for one conv + batch-norm, with or without conv bias, its weight quantized
\* per channel or per tensor, its weight a stored constant or a graph input
QuantUnits ==
  [bias : BOOLEAN, is_per_channel : BOOLEAN, weight : {"get_attr", "placeholder"}]

ScaleLit == 1
ZeroPointLit == 0

AddQuantUnit(S, u) ==
  LET b == Len(S.g)
      k == IF u.bias THEN 1 ELSE 0
      inputs == << GNode(u.weight, "conv_weight", << >>, b + 1) >>
                \o (IF u.bias THEN << GetAttr("conv_bias", b + 2) >> ELSE << >>)
                \o << GetAttr("bn_weight", b + 2 + k),
                      GetAttr("bn_bias", b + 3 + k),
                      GetAttr("bn_running_mean", b + 4 + k),
                      GetAttr("bn_running_var", b + 5 + k) >>
      binds == << MapEntry(1, S.cur), MapEntry(2, N(b + 1)),
                  MapEntry(3, IF u.bias THEN N(b + 2) ELSE None) >>
               \o [j \in 1..4 |-> MapEntry(j + 3, N(b + 1 + k + j))]
               \o [j \in 1..6 |-> MapEntry(j + 7,
                                   IF j % 2 = 1 THEN L(ScaleLit) ELSE L(ZeroPointLit))]
      template == NormalizeOverloads(
                    IF u.bias THEN QuantizedQatConv2dBnPattern(u.is_per_channel)
                    ELSE QuantizedQatNoConvBiasGraph(u.is_per_channel))
      g1 == S.g \o inputs
      new == Instantiate(g1, template, binds, {})
  IN BState(g1 \o new,
            S.m \o [j \in 1..(Len(inputs) + Len(new)) |-> NoAnnotation],
            N(Len(g1) + Len(new)))

RECURSIVE BuildQuant(_, _, _)
BuildQuant(S, us, i) ==
  IF i > Len(us) THEN S ELSE BuildQuant(AddQuantUnit(S, us[i]), us, i + 1)

QuantGraph(us, dead) == Finish(BuildQuant(Start, us, 1), dead)

\* ------------------------------------------------------------------------
\* _fold_conv_bn_qat, step (2)
\* ------------------------------------------------------------------------
DequantizeOverloads == {"dequantize_per_tensor.tensor", "dequantize_per_channel.default"}
QuantizeOverloads == {"quantize_per_tensor.tensor", "quantize_per_channel.default"}

\* the assertions on the weight chain and the bias of a replacement's conv
\* variant of the assertions without `assert conv_weight.op == "get_attr"`
FoldAssertionsWithoutGetAttr(g, conv) ==
  LET dq == g[conv].args[2] IN
  /\ IsNode(dq) /\ g[dq.v].target \in DequantizeOverloads
  /\ LET q == g[dq.v].args[1] IN
     /\ IsNode(q) /\ g[q.v].target \in QuantizeOverloads
     /\ IsNode(g[q.v].args[1])
  /\ IsNode(g[conv].args[3])

FoldAssertionsHold(g, conv) ==
  LET dq == g[conv].args[2] IN
  /\ IsNode(dq) /\ g[dq.v].target \in DequantizeOverloads
  /\ LET q == g[dq.v].args[1] IN
     /\ IsNode(q) /\ g[q.v].target \in QuantizeOverloads
     /\ LET w == g[q.v].args[1] IN IsNode(w) /\ g[w.v].op = "get_attr"
  /\ IsNode(g[conv].args[3])

RECURSIVE ReplaceUsesOfAll(_, _, _)
ReplaceUsesOfAll(g, S, new) ==
  IF S = {} THEN g
  ELSE LET i == CHOOSE x \in S : TRUE IN
       ReplaceUsesOfAll(ReplaceAllUsesWith(g, i, new), S \ {i}, new)

\* _fold_bn_weights_into_conv_node: the users of the batch-norm's first
\* output are moved onto the convolution
FoldBnWeightsIntoConvNode(g, conv, bn) ==
  ReplaceUsesOfAll(g,
    { u \in Users(g, bn) : g[u].target = "getitem" /\ g[u].args[2] = L(0) },
    conv)

\* one iteration of `for r in replacements`
FoldOne(g, r) ==
  LET t == _get_conv_bn_getitem_nodes(g, r.replacements) IN
  IF ~t.ok THEN [g |-> g, err |-> "AssertionError", conv |-> 0]
  ELSE IF ~FoldAssertionsHold(g, t.conv)
       THEN [g |-> g, err |-> "AssertionError", conv |-> 0]
  ELSE [g |-> FoldBnWeightsIntoConvNode(g, t.conv, t.bn), err |-> "none",
        conv |-> t.conv]

\* ------------------------------------------------------------------------
\* State
\* ------------------------------------------------------------------------
VARIABLES
  graph,    \* m.graph: the node objects, erased ones included
  metas,    \* heap of node.meta dictionaries (their quantization annotation)
  pc,       \* position in the running pass
  pass,     \* "fuse" or "fold"
  g0,       \* the graph the pass was called with
  replacements_with_conv_bias,
  replacements_no_conv_bias,
  replacements,   \* of _fold_conv_bn_qat
  ri,       \* index of the loop over the replacements
  err,      \* exception that ended the pass, or "none"
  folded,   \* convolutions whose stored weight and bias were folded
  m0,       \* the metadata heap the pass was called with
  match,    \* nodes_map handed to a match filter
  result,   \* what the filter call produced
  stale     \* an operand or the node list changed since the last m.recompile()

vars == << graph, metas, pc, pass, g0, replacements_with_conv_bias,
           replacements_no_conv_bias, replacements, ri, err, folded, m0, match,
           result, stale >>

\* an operand of a node, or the set of nodes in the graph, differs
Mutated(g, h) ==
  \/ Len(g) # Len(h)
  \/ \E i \in 1..Len(g) : g[i].args # h[i].args \/ g[i].erased # h[i].erased

AllReplacements == replacements_with_conv_bias \o replacements_no_conv_bias

InitFuse ==
  \E us \in UnitSeqs(FloatUnits), stride \in Strides,
     bnAnnot \in BOOLEAN, dead \in BOOLEAN :
    LET S == FloatGraph(us, stride, bnAnnot, dead) IN
    /\ graph = S.g
    /\ metas = S.m
    /\ g0 = S.g
    /\ m0 = S.m
    /\ pass = "fuse"

InitFold ==
  \E us \in UnitSeqs(QuantUnits), dead \in BOOLEAN :
    LET S == QuantGraph(us, dead) IN
    /\ graph = S.g
    /\ metas = S.m
    /\ g0 = S.g
    /\ m0 = S.m
    /\ pass = "fold"

NoResult == [filter |-> "none", value |-> "none"]

InitRest ==
  /\ pc = "start"
  /\ replacements_with_conv_bias = << >>
  /\ replacements_no_conv_bias = << >>
  /\ replacements = << >>
  /\ ri = 1
  /\ err = "none"
  /\ folded = {}
  /\ match = << >>
  /\ result = NoResult
  /\ stale = FALSE

Init == (InitFuse \/ InitFold) /\ InitRest

\* m.graph.eliminate_dead_code(); m.recompile()
FuseBegin ==
  /\ pass = "fuse" /\ pc = "start"
  /\ graph' = eliminate_dead_code(graph)
  /\ pc' = "step1"
  /\ stale' = FALSE
  /\ UNCHANGED << metas, pass, g0, replacements_with_conv_bias,
                  replacements_no_conv_bias, replacements, ri, err, folded, m0, match, result >>

\* Step (1): replace patterns with conv bias
FuseWithConvBias ==
  /\ pass = "fuse" /\ pc = "step1"
  /\ LET r == replace_pattern_with_filters(graph, metas, Conv2dBnPattern,
                                           QatConv2dBnPattern, "has_bias") IN
     /\ graph' = r.g
     /\ metas' = r.m
     /\ replacements_with_conv_bias' = r.reps
     /\ err' = r.err
     /\ pc' = IF r.err = "none" THEN "step2" ELSE "error"
  /\ stale' = IF err' = "none" THEN FALSE ELSE stale
  /\ UNCHANGED << pass, g0, replacements_no_conv_bias, replacements, ri, folded, m0, match, result >>

\* Step (2): replace patterns without conv bias
FuseNoConvBias ==
  /\ pass = "fuse" /\ pc = "step2"
  /\ LET r == replace_pattern_with_filters(graph, metas, Conv2dBnPattern,
                                           QatConv2dBnPatternNoConvBias,
                                           "no_bias") IN
     /\ graph' = r.g
     /\ metas' = r.m
     /\ replacements_no_conv_bias' = r.reps
     /\ err' = r.err
     /\ pc' = IF r.err = "none" THEN "post" ELSE "error"
  /\ stale' = IF err' = "none" THEN FALSE ELSE stale
  /\ UNCHANGED << pass, g0, replacements_with_conv_bias, replacements, ri, folded, m0, match, result >>

\* Step (3): one replacement of the post-processing loop
FusePostProcess ==
  /\ pass = "fuse" /\ pc = "post" /\ ri <= Len(AllReplacements)
  /\ LET s == PostProcess(graph, metas, AllReplacements[ri]) IN
     /\ graph' = s.g
     /\ metas' = s.m
     /\ err' = s.err
     /\ pc' = IF s.err = "none" THEN "post" ELSE "error"
     /\ ri' = IF s.err = "none" THEN ri + 1 ELSE ri
  /\ stale' = (stale \/ Mutated(graph, graph'))
  /\ UNCHANGED << pass, g0, replacements_with_conv_bias,
                  replacements_no_conv_bias, replacements, folded, m0, match, result >>

\* return m
FuseReturn ==
  /\ pass = "fuse" /\ pc = "post" /\ ri > Len(AllReplacements)
  /\ pc' = "done"
  /\ UNCHANGED << graph, metas, pass, g0, replacements_with_conv_bias,
                  replacements_no_conv_bias, replacements, ri, err, folded, m0, match, result, stale >>

\* m.graph.eliminate_dead_code(); m.recompile()
FoldBegin ==
  /\ pass = "fold" /\ pc = "start"
  /\ graph' = eliminate_dead_code(graph)
  /\ pc' = "replace_per_channel"
  /\ stale' = FALSE
  /\ UNCHANGED << metas, pass, g0, replacements_with_conv_bias,
                  replacements_no_conv_bias, replacements, ri, err, folded, m0, match, result >>

\* Step (1): one iteration of `for is_per_channel in [True, False]`
FoldReplace(is_per_channel) ==
  /\ pass = "fold"
  /\ pc = IF is_per_channel THEN "replace_per_channel" ELSE "replace_per_tensor"
  /\ LET r == replace_pattern_with_filters(graph, metas,
                NormalizeOverloads(QuantizedQatConv2dBnPattern(is_per_channel)),
                FoldedQuantizedQatConv2dBnPattern(is_per_channel), "none") IN
     /\ graph' = r.g
     /\ metas' = r.m
     /\ replacements' = replacements \o r.reps
  /\ pc' = IF is_per_channel THEN "replace_per_tensor" ELSE "fold"
  /\ stale' = IF is_per_channel THEN stale \/ Mutated(graph, graph') ELSE FALSE
  /\ UNCHANGED << pass, g0, replacements_with_conv_bias,
                  replacements_no_conv_bias, ri, err, folded, m0, match, result >>

\* Step (2): fold the batch-norm weights of one replacement into its conv
FoldStep ==
  /\ pass = "fold" /\ pc = "fold" /\ ri <= Len(replacements)
  /\ LET s == FoldOne(graph, replacements[ri]) IN
     /\ graph' = s.g
     /\ err' = s.err
     /\ pc' = IF s.err = "none" THEN "fold" ELSE "error"
     /\ ri' = IF s.err = "none" THEN ri + 1 ELSE ri
     /\ folded' = IF s.err = "none" THEN folded \cup {s.conv} ELSE folded
  /\ stale' = (stale \/ Mutated(graph, graph'))
  /\ UNCHANGED << metas, pass, g0, replacements_with_conv_bias,
                  replacements_no_conv_bias, replacements, m0, match, result >>

\* m.graph.eliminate_dead_code(); m.recompile(); return m
FoldReturn ==
  /\ pass = "fold" /\ pc = "fold" /\ ri > Len(replacements)
  /\ graph' = eliminate_dead_code(graph)
  /\ pc' = "done"
  /\ stale' = FALSE
  /\ UNCHANGED << metas, pass, g0, replacements_with_conv_bias,
                  replacements_no_conv_bias, replacements, ri, err, folded, m0, match, result >>

Next ==
  \/ FuseBegin
  \/ FuseWithConvBias
  \/ FuseNoConvBias
  \/ FusePostProcess
  \/ FuseReturn
  \/ FoldBegin
  \/ FoldReplace(TRUE)
  \/ FoldReplace(FALSE)
  \/ FoldStep
  \/ FoldReturn

Spec == Init /\ [][Next]_vars

\* ------------------------------------------------------------------------
\* Properties
\* ------------------------------------------------------------------------
SeqToSet(q) == { q[i] : i \in 1..Len(q) }

\* positions of the interior nodes in Conv2dBnPattern
PConv == 8
PBn == 9
PGetitem == 10

OriginalOf(r, p) == MappedTo(r.nodes_map, p).v

\* the occurrences of the float pattern in the graph the replacement steps see
Occurrences == Matches(Conv2dBnPattern, eliminate_dead_code(g0))

HandledBy(reps, occ) ==
  { i \in 1..Len(reps) :
      Interior(Conv2dBnPattern, reps[i].nodes_map) = Interior(Conv2dBnPattern, occ) }

OccurrenceHasBias(occ) == g0[MappedTo(occ, PConv).v].args[3] # None

\* C1: every occurrence of the float pattern is rewritten by exactly one of
\* the two steps, the with-bias step iff its conv has a bias operand, and no
\* node the with-bias step consumed or produced is consumed by the no-bias step
C1_BranchesPartitionMatches ==
  (pass = "fuse" /\ pc \in {"post", "done", "error"}) =>
    /\ err # "FilterError"
    /\ LET occs == Occurrences
       IN \A k \in 1..Len(occs) :
            LET w == HandledBy(replacements_with_conv_bias, occs[k])
                n == HandledBy(replacements_no_conv_bias, occs[k])
            IN /\ Cardinality(w) + Cardinality(n) = 1
               /\ (Cardinality(w) = 1) <=> OccurrenceHasBias(occs[k])
    /\ \A i \in 1..Len(replacements_with_conv_bias) :
       \A j \in 1..Len(replacements_no_conv_bias) :
         (Interior(Conv2dBnPattern, replacements_with_conv_bias[i].nodes_map)
            \cup SeqToSet(replacements_with_conv_bias[i].replacements))
         \cap Interior(Conv2dBnPattern, replacements_no_conv_bias[j].nodes_map) = {}

C1_Witness ==
  /\ pass = "fuse" /\ pc = "done"
  /\ Len(replacements_with_conv_bias) > 0
  /\ Len(replacements_no_conv_bias) > 0

AnnotationOf(g, m, i) == m[g[i].meta]

\* C2: after the fusion returns, every key of every input_qspec_map on a
\* node of the graph is a node that is in the graph
C2_NoDanglingKeys ==
  (pass = "fuse" /\ pc = "done") =>
    \A i \in Live(graph) :
      \A e \in 1..Len(AnnotationOf(graph, metas, i).qmap) :
        LET key == AnnotationOf(graph, metas, i).qmap[e].key IN
        IsNode(key) /\ key.v \in Live(graph)

NoMatchInput ==
  IF pass = "fuse" THEN Matches(Conv2dBnPattern, g0) = << >>
  ELSE \A is_per_channel \in BOOLEAN :
         Matches(NormalizeOverloads(QuantizedQatConv2dBnPattern(is_per_channel)),
                 g0) = << >>

OutputArgs(g) == { g[i].args : i \in { j \in Live(g) : g[j].op = "output" } }

SameNodeCountAndOutputs ==
  /\ Cardinality(Live(graph)) = Cardinality(Live(g0))
  /\ OutputArgs(graph) = OutputArgs(g0)

\* every node of the input other than its inputs and its output has a consumer
NoConsumerlessNode ==
  \A i \in Live(g0) :
    g0[i].op \in {"placeholder", "output"} \/ Users(g0, i) # {}

\* C3 as stated: a pass over a graph without a match returns a graph with
\* the same number of nodes and the same outputs, consumer-less nodes or not
C3_NoMatchIsIdentity ==
  (pc = "done" /\ NoMatchInput) => SameNodeCountAndOutputs

\* C3 amended: a pass over a graph without a match and without consumer-less
\* nodes returns a graph with the same number of nodes and the same outputs
C3_NoMatchNoDeadIsIdentity ==
  (pc = "done" /\ NoMatchInput /\ NoConsumerlessNode) => SameNodeCountAndOutputs

C3_Witness ==
  /\ pc = "done" /\ NoMatchInput /\ NoConsumerlessNode
  /\ \E i \in Live(g0) : g0[i].target = "conv"

\* C4: after the fold returns, no batch-norm node of a quantized fused
\* subgraph of the input is left in the graph
C4_NoFusedBatchNormRemains ==
  (pass = "fold" /\ pc = "done") =>
    \A i \in Live(g0) : g0[i].target = "bn" => i \notin Live(graph)

\* ------------------------------------------------------------------------
\* _get_conv_bn_getitem_nodes over arbitrary node lists
\* ------------------------------------------------------------------------
MaxNodes == 4

NodePool ==
  << GNode("call_function", "conv",
           << None, None, None >> \o ConvLits(DefaultStride), 1),
     GNode("call_function", "conv",
           << None, None, None >> \o ConvLits(DefaultStride), 2),
     GNode("call_function", "bn",
           << None, None, None, None, None >> \o BnLits, 3),
     GNode("call_function", "getitem", << None, L(0) >>, 4),
     GNode("call_function", "relu", << None >>, 5),
     GNode("placeholder", "input", << >>, 6) >>

NodeLists == UNION { [1..n -> 1..Len(NodePool)] : n \in 0..MaxNodes }

\* the loop of step (3) over two replacements: any node list, then a
\* (conv, bn, getitem) list or one without getitem
InitNodes ==
  /\ graph = NodePool
  /\ g0 = NodePool
  /\ metas = [j \in 1..Len(NodePool) |-> NoAnnotation]
  /\ m0 = [j \in 1..Len(NodePool) |-> NoAnnotation]
  /\ pass = "fuse"
  /\ pc = "post"
  /\ \E first \in NodeLists, second \in { << 1, 3, 4 >>, << 1, 3 >> } :
       replacements_with_conv_bias =
         << ReplacedPatterns(<< >>, first), ReplacedPatterns(<< >>, second) >>
  /\ replacements_no_conv_bias = << >>
  /\ replacements = << >>
  /\ ri = 1
  /\ err = "none"
  /\ folded = {}
  /\ match = << >>
  /\ result = NoResult
  /\ stale = FALSE

NextNodes ==
  \/ FusePostProcess
  \/ FuseReturn

SpecNodes == InitNodes /\ [][NextNodes]_vars

CountKind(g, nodes, target) ==
  Cardinality({ i \in 1..Len(nodes) :
     g[nodes[i]].op = "call_function" /\ g[nodes[i]].target = target })

ExactlyOneOfEach(g, nodes) ==
  \A target \in {"conv", "bn", "getitem"} : CountKind(g, nodes, target) = 1

TripleIsFrom(g, nodes, t) ==
  /\ {t.conv, t.bn, t.getitem} \subseteq SeqToSet(nodes)
  /\ g[t.conv].target = "conv"
  /\ g[t.bn].target = "bn"
  /\ g[t.getitem].target = "getitem"

\* C5: the helper returns the triple iff the list holds exactly one conv, one
\* batch-norm and one getitem call; otherwise it fails and the loop that
\* called it stops at that replacement
C5_ExactlyOneOfEachOrAbort ==
  /\ \A j \in 1..Len(AllReplacements) :
       LET nodes == AllReplacements[j].replacements
           t == _get_conv_bn_getitem_nodes(graph, nodes)
       IN /\ t.ok <=> ExactlyOneOfEach(graph, nodes)
          /\ t.ok => TripleIsFrom(graph, nodes, t)
          /\ ~ExactlyOneOfEach(graph, nodes) =>
               /\ ri <= j
               /\ (ri = j /\ pc # "post") => (pc = "error" /\ err = "AssertionError")
  /\ pc = "done" => ri = Len(AllReplacements) + 1

C5_Witness ==
  /\ pc = "error" /\ err = "AssertionError" /\ ri = 1
  /\ ExactlyOneOfEach(graph, AllReplacements[2].replacements)

\* ------------------------------------------------------------------------
\* The match filters over node maps
\* ------------------------------------------------------------------------
IsConvEntry(g, entry) == IsNode(entry.g) /\ g[entry.g.v].target = "conv"

\* a node map as the matcher built it, or the same map without its conv entry
InitFilter ==
  /\ \E us \in UnitSeqs(FloatUnits), drop \in BOOLEAN :
       LET S == FloatGraph(us, DefaultStride, FALSE, FALSE)
           g == eliminate_dead_code(S.g)
           ms == Matches(Conv2dBnPattern, g)
       IN \E k \in 1..Len(ms) :
            /\ graph = g
            /\ g0 = S.g
            /\ metas = S.m
            /\ m0 = S.m
            /\ match = IF drop
                       THEN SelectSeq(ms[k], LAMBDA entry : ~IsConvEntry(g, entry))
                       ELSE ms[k]
  /\ pass = "filter"
  /\ pc = "call"
  /\ replacements_with_conv_bias = << >>
  /\ replacements_no_conv_bias = << >>
  /\ replacements = << >>
  /\ ri = 1
  /\ err = "none"
  /\ folded = {}
  /\ result = NoResult
  /\ stale = FALSE

CallFilter(name) ==
  /\ pass = "filter" /\ pc = "call"
  /\ result' = [filter |-> name, value |-> ApplyFilter(name, graph, match)]
  /\ pc' = "returned"
  /\ UNCHANGED << graph, metas, pass, g0, replacements_with_conv_bias,
                  replacements_no_conv_bias, replacements, ri, err, folded,
                  m0, match, stale >>

NextFilter ==
  \/ CallFilter("has_bias")
  \/ CallFilter("no_bias")

SpecFilter == InitFilter /\ [][NextFilter]_vars

ConvEntries == { e \in 1..Len(match) : IsConvEntry(graph, match[e]) }

MatchedConvHasBias ==
  graph[match[CHOOSE e \in ConvEntries : TRUE].g.v].args[3] # None

Bool(b) == IF b THEN "True" ELSE "False"

\* C6: on a node map with a conv node the has-bias filter answers whether the
\* conv's operand 2 is not None and the no-bias filter answers the opposite;
\* on a node map without a conv node neither returns a boolean
C6_FiltersDecideOnConvBias ==
  (pc = "returned") =>
    IF ConvEntries # {}
    THEN /\ result.filter = "has_bias" => result.value = Bool(MatchedConvHasBias)
         /\ result.filter = "no_bias" => result.value = Bool(~MatchedConvHasBias)
    ELSE result.value \in {"ValueError", "AttributeError"}

C6_Witness ==
  /\ pc = "returned" /\ ConvEntries = {}
  /\ \E e \in 1..Len(match) : match[e].g = None
  /\ result.filter = "no_bias" /\ result.value = "AttributeError"

\* ------------------------------------------------------------------------
\* Properties of step (3)
\* ------------------------------------------------------------------------
OriginalConvAnnotated(r) == m0[g0[OriginalOf(r, PConv)].meta].has

\* C7: the loop never gets past a replacement whose original conv has no
\* quantization annotation; it ends there with an error
C7_MissingAnnotationAborts ==
  (pass = "fuse" /\ pc \in {"post", "done", "error"}) =>
    \A j \in 1..Len(AllReplacements) :
      ~OriginalConvAnnotated(AllReplacements[j]) =>
        /\ ri <= j
        /\ (ri = j /\ pc # "post") => (pc = "error" /\ err = "KeyError")

C7_Witness ==
  /\ pass = "fuse" /\ pc = "error" /\ err = "KeyError"
  /\ ri < Len(AllReplacements)

ReplacementTriple(r) == _get_conv_bn_getitem_nodes(graph, r.replacements)

\* C8: the metadata on a replacement's conv, batch-norm and getitem is that of
\* the original node of the same kind inside the same match
C8_MetadataFromSameMatch ==
  (pass = "fuse" /\ pc = "done") =>
    \A j \in 1..Len(AllReplacements) :
      LET r == AllReplacements[j]
          t == ReplacementTriple(r)
      IN /\ graph[t.conv].meta = g0[OriginalOf(r, PConv)].meta
         /\ graph[t.bn].meta = g0[OriginalOf(r, PBn)].meta
         /\ graph[t.getitem].meta = g0[OriginalOf(r, PGetitem)].meta

SpecsAt(qmap, key) ==
  { qmap[e].spec : e \in { x \in 1..Len(qmap) : qmap[x].key = key } }

\* C9: the rebuilt annotation maps operand 0 to the first original spec and
\* operand 1 to the second; the third spec is keyed on operand 2 only when the
\* replacement conv has a bias operand, and is dropped otherwise
C9_RebuiltAnnotation ==
  (pass = "fuse" /\ pc = "done") =>
    \A j \in 1..Len(AllReplacements) :
      LET r == AllReplacements[j]
          conv == graph[ReplacementTriple(r).conv]
          original == m0[g0[OriginalOf(r, PConv)].meta].qmap
          rebuilt == metas[conv.meta].qmap
      IN /\ SpecsAt(rebuilt, conv.args[1]) = {original[1].spec}
         /\ SpecsAt(rebuilt, conv.args[2]) = {original[2].spec}
         /\ (conv.args[3] # None /\ Len(original) > 2) =>
               /\ SpecsAt(rebuilt, conv.args[3]) = {original[3].spec}
               /\ Len(rebuilt) = 3
         /\ (conv.args[3] = None \/ Len(original) = 2) =>
               /\ SpecsAt(rebuilt, None) = {}
               /\ Len(rebuilt) = 2

LiveConvs(g) == { i \in Live(g) : g[i].target = "conv" }

\* C10: a replacement conv carries the literal arguments 3.. of the original
\* conv, and the copy leaves its first three operands as the rewriter set them
C10_ConvLiteralArgsCopied ==
  /\ []((pass = "fuse" /\ pc = "done") =>
         \A j \in 1..Len(AllReplacements) :
           LET r == AllReplacements[j]
               conv == graph[ReplacementTriple(r).conv]
           IN SubSeq(conv.args, 4, Len(conv.args))
                = SubSeq(g0[OriginalOf(r, PConv)].args, 4, 9))
  /\ [][(pass = "fuse" /\ pc = "post") =>
         \A i \in LiveConvs(graph) :
           SubSeq(graph'[i].args, 1, 3) = SubSeq(graph[i].args, 1, 3)]_vars

C10_Witness ==
  /\ pass = "fuse" /\ pc = "done" /\ Len(AllReplacements) > 0
  /\ \E i \in LiveConvs(graph) : graph[i].args[4] # L(DefaultStride)

\* ------------------------------------------------------------------------
\* Recompilation
\* ------------------------------------------------------------------------
\* C11: when a pass has returned, a recompile has followed its last change
\* of a node's operands or of the nodes in the graph
C11_RecompiledOnReturn ==
  (pc = "done") => ~stale

\* ------------------------------------------------------------------------
\* Properties of the fold
\* ------------------------------------------------------------------------
FoldedConv(j) == ReplacementTriple(replacements[j]).conv

\* the conv's weight operand is a dequantize of a quantize of a node, and its
\* bias operand is a node
WeightChainHolds(g, conv) ==
  LET dq == g[conv].args[2] IN
  /\ IsNode(dq) /\ g[dq.v].target \in DequantizeOverloads
  /\ IsNode(g[dq.v].args[1])
  /\ g[g[dq.v].args[1].v].target \in QuantizeOverloads
  /\ IsNode(g[g[dq.v].args[1].v].args[1])
  /\ IsNode(g[conv].args[3])

\* the node at the start of the conv's dequantize -> quantize chain
WeightSource(g, conv) == g[g[g[g[conv].args[2].v].args[1].v].args[1].v]

====
